---- MODULE Spec2Model ----
(***************************************************************************)
(* Model of the AgilePlace HTTP access layer: src/src/client.py            *)
(* (AgilePlaceClient: shared httpx handle, response classification,        *)
(* rate-limit retry loop) and src/agileplace_mcp/auth.py (AgilePlaceAuth:  *)
(* credential resolution).  Several logical calls run as cooperative       *)
(* tasks on one client; a task is suspended only while it awaits the       *)
(* transport (client.request), the backoff sleep (asyncio.sleep) or        *)
(* aclose().                                                               *)
(***************************************************************************)
EXTENDS Integers, Sequences, FiniteSets, TLC

(* ---------------------------- bounds ---------------------------------- *)
MaxCalls == 2          \* logical calls that may be in flight on one client
MaxHandles == 2        \* httpx.AsyncClient objects one client may create
MaxCloses == 2         \* aclose() calls counted per handle
MaxRetriesLimit == 4   \* largest configured max_retries of a single call
MaxRetriesShared == 2  \* largest configured max_retries of interleaved calls
MaxDomainParts == 3    \* pieces a domain string given to AgilePlaceAuth is made of

Calls == 1..MaxCalls
Handles == 1..MaxHandles

(* ------------------------- Optional values ---------------------------- *)
\* Python None / a present value, as a sequence of length 0 or 1.
None == <<>>
Some(v) == <<v>>
IsNone(o) == o = <<>>
Get(o) == o[1]

(* ------------------------------ JSON ---------------------------------- *)
\* A parsed JSON value: a mapping or a list with its items; PyNone is the
\* value of a Python function that falls off its end.
EmptyDict == [type |-> "dict", items |-> {}]
PyNone == [type |-> "NoneType", items |-> {}]

\* Response texts the transport may deliver.
Texts == {"", "{\"data\": \"test\"}", "{\"message\": \"Card not found\"}",
          "[1]", "Not found"}

\* response.json(): the texts that parse, and what they parse to.
JsonValid(text) == text \in {"{\"data\": \"test\"}", "{\"message\": \"Card not found\"}", "[1]"}

JsonLoads(text) ==
    CASE text = "{\"data\": \"test\"}" -> [type |-> "dict", items |-> {<<"data", "test">>}]
      [] text = "{\"message\": \"Card not found\"}" -> [type |-> "dict", items |-> {<<"message", "Card not found">>}]
      [] text = "[1]" -> [type |-> "list", items |-> {<<"0", "1">>}]

\* error_data.get("message", default)
DictGet(json, key, default) ==
    IF \E kv \in json.items : kv[1] = key
    THEN (CHOOSE kv \in json.items : kv[1] = key)[2]
    ELSE default

(* --------------------------- Retry-After ------------------------------ *)
\* Instants are seconds since 2024-01-01 00:00:00 UTC.
NoHeader == "<absent>"
RetryAfterHeaders == {NoHeader, "", "120", "Fri, 01 Jan 2024 12:00:00 GMT",
                      "Mon, 01 Jan 2024 12:01:00 GMT"}

\* datetime.strptime(header, "%a, %d %b %Y %H:%M:%S %Z"): ValueError unless
\* the header is an HTTP-date (the weekday name is not checked against the
\* date).
StrptimeOk(h) == h \in {"Fri, 01 Jan 2024 12:00:00 GMT", "Mon, 01 Jan 2024 12:01:00 GMT"}

Strptime(h) ==
    CASE h = "Fri, 01 Jan 2024 12:00:00 GMT" -> 43200
      [] h = "Mon, 01 Jan 2024 12:01:00 GMT" -> 43260

\* Readings of datetime.utcnow() at the moment a wait is computed.
Clock == {43100, 43140, 43170, 43200, 43230, 43300}

(* ---------------------------- exceptions ------------------------------ *)
NoError == [type |-> "none", message |-> "", status_code |-> None,
            response |-> None, retry_after |-> None]

\* AgilePlaceAPIError(message, status_code, response)
AgilePlaceAPIError(message, status_code, response) ==
    [type |-> "AgilePlaceAPIError", message |-> message,
     status_code |-> status_code, response |-> response, retry_after |-> None]

\* RateLimitError(retry_after, message=..., status_code=...)
RateLimitError(retry_after, message, status_code) ==
    [type |-> "RateLimitError", message |-> message,
     status_code |-> status_code, response |-> None, retry_after |-> retry_after]

\* An exception that is none of the client's own: raised by response.json()
\* (JSONDecodeError), by the transport (httpx.TransportError / RuntimeError)
\* or by the event loop (CancelledError).
OtherError(type) ==
    [type |-> type, message |-> "", status_code |-> None,
     response |-> None, retry_after |-> None]

(* ---------------------------- responses ------------------------------- *)
Statuses == {200, 201, 202, 204, 429, 404, 500}

Responses == [status_code : Statuses, text : Texts, retry_after : RetryAfterHeaders]

Returned(value) == [raised |-> FALSE, value |-> value, error |-> NoError]
Raised(error) == [raised |-> TRUE, value |-> PyNone, error |-> error]

GenericMessage(status_code) == "API request failed with status " \o ToString(status_code)

\* Lines 102-105: the statuses answered with the parsed body.
SuccessStatuses_with204 == {200, 201, 202, 204}

SuccessStatuses_only200 == {200}

SuccessStatuses == {200, 201, 202}

\* Lines 103-105: `if response.text: return response.json()`, else {}.
HandleSuccess_noempty(response) ==
    IF JsonValid(response.text)
    THEN Returned(JsonLoads(response.text))
    ELSE Raised(OtherError("JSONDecodeError"))

HandleSuccess_noparse(response) == Returned(EmptyDict)

HandleSuccess(response) ==
    IF response.text # ""
    THEN IF JsonValid(response.text)
         THEN Returned(JsonLoads(response.text))
         ELSE Raised(OtherError("JSONDecodeError"))
    ELSE Returned(EmptyDict)

\* Lines 113-122: the Retry-After header parsed, None when it is missing,
\* empty or not an HTTP-date.
ParseRetryAfter(retry_after_header) ==
    IF retry_after_header # NoHeader /\ retry_after_header # ""
    THEN IF StrptimeOk(retry_after_header)
         THEN Some(Strptime(retry_after_header))
         ELSE None
    ELSE None

\* Lines 112-128: status 429.
HandleRateLimit_unguarded(response) ==
    IF response.retry_after # NoHeader /\ response.retry_after # ""
       /\ ~StrptimeOk(response.retry_after)
    THEN Raised(OtherError("ValueError"))
    ELSE Raised(RateLimitError(ParseRetryAfter(response.retry_after),
                               "Rate limit exceeded", Some(429)))

HandleRateLimit(response) ==
    Raised(RateLimitError(ParseRetryAfter(response.retry_after),
                          "Rate limit exceeded", Some(429)))

\* Lines 130-143: every other status.
HandleError_nostatus(response) ==
    Raised(AgilePlaceAPIError(GenericMessage(response.status_code), None, None))

HandleError_textfirst(response) ==
    Raised(AgilePlaceAPIError(
        IF response.text # "" THEN response.text ELSE GenericMessage(response.status_code),
        Some(response.status_code),
        IF JsonValid(response.text) THEN Some(JsonLoads(response.text)) ELSE None))

HandleError(response) ==
    LET error_message == GenericMessage(response.status_code)
    IN IF JsonValid(response.text)
       THEN LET error_data == JsonLoads(response.text)
            IN Raised(AgilePlaceAPIError(
                   IF error_data.type = "dict"
                   THEN DictGet(error_data, "message", error_message)
                   ELSE error_message,
                   Some(response.status_code), Some(error_data)))
       ELSE Raised(AgilePlaceAPIError(
                   IF response.text # "" THEN response.text ELSE error_message,
                   Some(response.status_code), None))

\* AgilePlaceClient._handle_response
HandleResponse(response) ==
    IF response.status_code \in SuccessStatuses
    THEN HandleSuccess(response)
    ELSE IF response.status_code = 204
    THEN Returned(EmptyDict)
    ELSE IF response.status_code = 429
    THEN HandleRateLimit(response)
    ELSE HandleError(response)

Max(a, b) == IF a >= b THEN a ELSE b
Min(a, b) == IF a <= b THEN a ELSE b

\* The wait computed in the except branch of _request_with_retry.
WaitTime_noclamp(e, attempt_, now) ==
    IF ~IsNone(e.retry_after)
    THEN Get(e.retry_after) - now
    ELSE 2 ^ attempt_

WaitTime(e, attempt_, now) ==
    IF ~IsNone(e.retry_after)
    THEN Max(0, Min(Get(e.retry_after) - now, 60))
    ELSE 2 ^ (attempt_ + 1)

(* --------------------------- credentials ------------------------------ *)
\* src/agileplace_mcp/auth.py.  A string is kept as a sequence: a domain as
\* the sequence of its characters, so that str.replace is computed as Python
\* computes it, a token as one opaque piece.
Https == <<"h", "t", "t", "p", "s", ":", "/", "/">>
Http == <<"h", "t", "t", "p", ":", "/", "/">>
Host == <<"a", ".", "i", "o">>
TestDomain == <<"t", "e", "s", "t", ".", "a", "g", "i", "l", "e", "p", "l", "a", "c", "e",
                ".", "c", "o", "m">>

\* The pieces domain strings are put together from.
Pieces == {Https, Http, Host, <<"h">>, <<"t", "t", "p", ":", "/", "/">>,
           <<"H", "T", "T", "P", "S", ":", "/", "/">>}

RECURSIVE Concats(_)
Concats(n) ==
    IF n = 0 THEN {<<>>}
    ELSE Concats(n - 1) \cup {s \o q : s \in Concats(n - 1), q \in Pieces}

DomainStrings == Concats(MaxDomainParts)

\* Python truthiness of an optional string: neither None nor empty.
Truthy(o) == ~IsNone(o) /\ Get(o) # <<>>

\* `a or b`
OrElse_envfirst(a, b) == IF Truthy(b) THEN b ELSE a

OrElse(a, b) == IF Truthy(a) THEN a ELSE b

\* s.replace(old, ""): every non-overlapping occurrence of old, from the left.
RECURSIVE Replace(_, _)
Replace(s, old) ==
    IF Len(s) < Len(old) THEN s
    ELSE IF SubSeq(s, 1, Len(old)) = old
    THEN Replace(SubSeq(s, Len(old) + 1, Len(s)), old)
    ELSE <<Head(s)>> \o Replace(Tail(s), old)

\* Line 49: self.domain.replace("https://", "").replace("http://", "")
StripProtocol(domain) == Replace(Replace(domain, Https), Http)

\* The arguments of AgilePlaceAuth(...) and the two environment variables.
AuthInputs ==
    [domain : {None} \cup {Some(s) : s \in DomainStrings},
     api_token : {None, Some(<<>>), Some(<<"test_token">>)},
     env_domain : {None, Some(<<>>), Some(Host), Some(Https \o Host)},
     env_token : {None, Some(<<"env_token">>)}]

NoAuthError == [type |-> "none", key |-> "", domain |-> <<>>]

\* AgilePlaceAuthError: which variable the message names and the domain put
\* into its account URL.
AgilePlaceAuthError(key, domain) ==
    [type |-> "AgilePlaceAuthError", key |-> key, domain |-> domain]

Unconstructed(in) ==
    [state |-> "unconstructed", in |-> in, domain |-> <<>>, api_token |-> <<>>,
     error |-> NoAuthError, valid |-> None]

\* AgilePlaceAuth.__init__
AuthInit_tokenfirst(in) ==
    LET domain == OrElse(in.domain, in.env_domain)
        api_token == OrElse(in.api_token, in.env_token)
    IN IF ~Truthy(api_token)
       THEN [state |-> "error", in |-> in,
             domain |-> IF Truthy(domain) THEN Get(domain) ELSE <<>>,
             api_token |-> <<>>,
             error |-> AgilePlaceAuthError("AGILEPLACE_API_TOKEN",
                                           IF Truthy(domain) THEN Get(domain) ELSE <<>>),
             valid |-> None]
       ELSE IF ~Truthy(domain)
       THEN [state |-> "error", in |-> in, domain |-> <<>>, api_token |-> <<>>,
             error |-> AgilePlaceAuthError("AGILEPLACE_DOMAIN", <<>>), valid |-> None]
       ELSE [state |-> "constructed", in |-> in,
             domain |-> StripProtocol(Get(domain)), api_token |-> Get(api_token),
             error |-> NoAuthError, valid |-> None]

AuthInit(in) ==
    LET domain == OrElse(in.domain, in.env_domain)
        api_token == OrElse(in.api_token, in.env_token)
    IN IF ~Truthy(domain)
       THEN [state |-> "error", in |-> in, domain |-> <<>>, api_token |-> <<>>,
             error |-> AgilePlaceAuthError("AGILEPLACE_DOMAIN", <<>>), valid |-> None]
       ELSE IF ~Truthy(api_token)
       THEN [state |-> "error", in |-> in, domain |-> Get(domain), api_token |-> <<>>,
             error |-> AgilePlaceAuthError("AGILEPLACE_API_TOKEN", Get(domain)),
             valid |-> None]
       ELSE [state |-> "constructed", in |-> in,
             domain |-> StripProtocol(Get(domain)), api_token |-> Get(api_token),
             error |-> NoAuthError, valid |-> None]

\* AgilePlaceAuth.base_url
base_url(a) == Https \o a.domain \o <<"/", "i", "o">>

\* AgilePlaceAuth.get_headers
get_headers_rawtoken(a) ==
    [Authorization |-> a.api_token,
     Accept |-> "application/json",
     ContentType |-> "application/json"]

get_headers(a) ==
    [Authorization |-> <<"Bearer ">> \o a.api_token,
     Accept |-> "application/json",
     ContentType |-> "application/json"]

\* AgilePlaceAuth.validate
validate(a) == a.domain # <<>> /\ a.api_token # <<>>

\* The auth fixture of tests/test_client.py.
TestAuth ==
    AuthInit([domain |-> Some(TestDomain), api_token |-> Some(<<"test_token">>),
              env_domain |-> None, env_token |-> None])

(* ----------------------------- requests ------------------------------- *)
\* A keyword argument that is not passed, and one passed (or defaulted) as
\* None; every other argument value is the text of the value.
Absent == "<absent>"
NoneArg == "None"

Keywords == {"params", "json", "data"}
NoArgs == [k \in Keywords |-> Absent]

\* connections.py lines 170-175 with parent_id = "parent123" and
\* child_id = "child456".
ConnectionPayload ==
    "{\"cardIds\": [\"parent123\"], \"connections\": {\"children\": [\"child456\"]}}"

\* boards.py lines 32-35 with the defaults of the list_boards tool.
BoardParams == "{\"limit\": 200, \"offset\": 0}"

CardPayload == "{\"title\": \"t\"}"

\* The keyword parameters in the signature of each verb entry point and
\* those without a default.
Accepts(verb) ==
    CASE verb = "get" -> {"params"}
      [] verb = "post" -> {"json", "data"}
      [] verb = "patch" -> {"json"}
      [] verb = "put" -> {"json"}
      [] verb = "delete" -> {}

Required(verb) == IF verb \in {"patch", "put"} THEN {"json"} ELSE {}

\* The arguments of _request_with_retry(method, endpoint, **kwargs).
Request(method, endpoint, kwargs) ==
    [method |-> method, endpoint |-> endpoint, kwargs |-> kwargs]

get(endpoint, params) ==
    Request("GET", endpoint, [NoArgs EXCEPT !["params"] = params])

post(endpoint, json, data) ==
    Request("POST", endpoint, [NoArgs EXCEPT !["json"] = json, !["data"] = data])

patch(endpoint, json) ==
    Request("PATCH", endpoint, [NoArgs EXCEPT !["json"] = json])

put(endpoint, json) ==
    Request("PUT", endpoint, [NoArgs EXCEPT !["json"] = json])

delete(endpoint) ==
    Request("DELETE", endpoint, NoArgs)

\* A call of a verb entry point as its caller writes it: who calls (a test
\* or script directly, or a server tool through its domain operation), the
\* verb, the path and the keyword arguments passed.
Invocation(via, verb, endpoint, passed) ==
    [via |-> via, verb |-> verb, endpoint |-> endpoint, passed |-> passed]

NoInvocation == Invocation("none", "", "", NoArgs)

\* client.get("/test") of tests/test_client.py.
TestCall == Invocation("client", "get", "/test", NoArgs)

DirectCalls ==
    {TestCall,
     Invocation("client", "post", "/card", [NoArgs EXCEPT !["json"] = CardPayload]),
     Invocation("client", "patch", "/card/1", [NoArgs EXCEPT !["json"] = CardPayload]),
     Invocation("client", "put", "/card/1", [NoArgs EXCEPT !["json"] = CardPayload]),
     Invocation("client", "delete", "/card/1", NoArgs)}

\* The verb calls of the domain operations behind three server tools.
ToolCalls ==
    {Invocation("list_boards", "get", "/board",
                [NoArgs EXCEPT !["params"] = BoardParams]),
     Invocation("create_connection", "post", "/card/connections",
                [NoArgs EXCEPT !["json"] = ConnectionPayload]),
     Invocation("delete_connection", "delete", "/card/connections",
                [NoArgs EXCEPT !["json"] = ConnectionPayload])}

Invocations == DirectCalls \cup ToolCalls

Passed(inv) == {k \in Keywords : inv.passed[k] # Absent}

\* Python binds the call to the signature, else TypeError.
Binds(inv) ==
    /\ Passed(inv) \subseteq Accepts(inv.verb)
    /\ Required(inv.verb) \subseteq Passed(inv)

\* A keyword that is not passed takes its default, None.
Default(arg) == IF arg = Absent THEN NoneArg ELSE arg

\* The _request_with_retry arguments a bound call ends in.
Dispatch(inv) ==
    CASE inv.verb = "get" -> get(inv.endpoint, Default(inv.passed["params"]))
      [] inv.verb = "post" -> post(inv.endpoint, Default(inv.passed["json"]),
                                   Default(inv.passed["data"]))
      [] inv.verb = "patch" -> patch(inv.endpoint, inv.passed["json"])
      [] inv.verb = "put" -> put(inv.endpoint, inv.passed["json"])
      [] inv.verb = "delete" -> delete(inv.endpoint)

(* ---------------------------- server tools ---------------------------- *)
EmptyList == [type |-> "list", items |-> {}]

\* A Python str returned by a tool.
Str(s) == [type |-> "str", items |-> {<<"0", s>>}]

ValueError(message) ==
    [type |-> "ValueError", message |-> message, status_code |-> None,
     response |-> None, retry_after |-> None]

\* isinstance(e, cls): RateLimitError is a subclass of AgilePlaceAPIError.
IsInstance(e, cls) ==
    \/ e.type = cls
    \/ cls = "AgilePlaceAPIError" /\ e.type = "RateLimitError"

\* f"{e.status_code}"
StatusText(status_code) ==
    IF IsNone(status_code) THEN "None" ELSE ToString(Get(status_code))

\* server.handle_api_error
handle_api_error_apifirst(e) ==
    IF IsInstance(e, "AgilePlaceAPIError")
    THEN "API Error (" \o StatusText(e.status_code) \o "): " \o e.message
    ELSE IF IsInstance(e, "RateLimitError")
    THEN "Rate limit exceeded. Please try again later. " \o e.message
    ELSE IF IsInstance(e, "AgilePlaceAuthError")
    THEN "Authentication Error: " \o e.message
    ELSE "Unexpected error: " \o e.message

handle_api_error(e) ==
    IF IsInstance(e, "RateLimitError")
    THEN "Rate limit exceeded. Please try again later. " \o e.message
    ELSE IF IsInstance(e, "AgilePlaceAPIError")
    THEN "API Error (" \o StatusText(e.status_code) \o "): " \o e.message
    ELSE IF IsInstance(e, "AgilePlaceAuthError")
    THEN "Authentication Error: " \o e.message
    ELSE "Unexpected error: " \o e.message

DeletedText == "Connection between parent123 and child456 deleted successfully"

\* The domain operation around the verb call: what it makes of the verb's
\* outcome o.
DomainResult(inv, o) ==
    IF o.raised THEN o
    ELSE IF inv.via = "list_boards"
    THEN IF o.value.type = "dict"
         THEN Returned(DictGet(o.value, "boards", EmptyList))
         ELSE Raised(OtherError("AttributeError"))
    ELSE IF inv.via = "delete_connection"
    THEN Returned(PyNone)
    ELSE o

\* The server tool around the domain operation: try / except Exception.
\* CancelledError is no Exception and passes through.
ToolResult(inv, o) ==
    LET r == DomainResult(inv, o)
    IN IF ~r.raised
       THEN IF inv.via = "delete_connection" THEN Returned(Str(DeletedText)) ELSE r
       ELSE IF r.error.type = "CancelledError" THEN r
       ELSE Raised(ValueError(handle_api_error(r.error)))

(* ------------------------------ state --------------------------------- *)
VARIABLES
    auth,          \* the AgilePlaceAuth object (self.auth of the client)
    max_retries,   \* self.max_retries
    self_client,   \* self._client: None or Some(handle)
    nHandles,      \* number of httpx.AsyncClient objects constructed so far
    handle_cfg,    \* handle_cfg[h]: base_url and headers handle h was built with
    closes,        \* closes[h]: number of aclose() calls made on handle h
    closing,       \* close() suspended in aclose(): Some(handle), else None
    used,          \* handles through which a request has been issued
    sentClosed,    \* a request was issued through an already closed handle
    pc,            \* pc[c]: position of logical call c
    invocation,    \* invocation[c]: the verb call that started call c
    client,        \* client[c]: the local `client` of _request_with_retry
    attempt,       \* attempt[c]: the loop variable
    last_error,    \* last_error[c]
    wait_time,     \* wait_time[c]: the last computed wait
    requests,      \* requests[c]: client.request calls made by call c
    sent,          \* sent[c]: the client.request calls of c, in order
    waits,         \* waits[c]: asyncio.sleep calls made by call c
    statuses,      \* statuses[c]: status codes of the responses c received
    last_response, \* last_response[c]: the last response c received
    last_now,      \* last_now[c]: clock reading used for the last wait
    outcome,       \* outcome[c]: what the verb returned or raised
    tool           \* tool[c]: what the server tool around c returned or raised

vars == <<auth, max_retries, self_client, nHandles, handle_cfg, closes, closing, used,
          sentClosed, pc, invocation, client, attempt, last_error, wait_time,
          requests, sent, waits, statuses, last_response, last_now, outcome, tool>>

executorVars == <<self_client, nHandles, handle_cfg, closes, closing>>
callVars == <<pc, invocation, client, attempt, last_error, wait_time, requests, sent,
              waits, statuses, last_response, last_now, outcome, tool>>

NoResponse == [status_code |-> 0, text |-> "", retry_after |-> NoHeader]
NoOutcome == [raised |-> FALSE, value |-> PyNone, error |-> NoError]

\* A handle that does not exist yet has no configuration.
NoConfig ==
    [base_url |-> <<>>,
     headers |-> [Authorization |-> <<>>, Accept |-> "", ContentType |-> ""]]

\* AgilePlaceClient.__init__ with max_retries = m; no call has started.
ClientInit(m) ==
    /\ max_retries = m
    /\ self_client = None
    /\ nHandles = 0
    /\ handle_cfg = [h \in Handles |-> NoConfig]
    /\ closes = [h \in Handles |-> 0]
    /\ closing = None
    /\ used = {}
    /\ sentClosed = FALSE
    /\ pc = [c \in Calls |-> "idle"]
    /\ invocation = [c \in Calls |-> NoInvocation]
    /\ client = [c \in Calls |-> None]
    /\ attempt = [c \in Calls |-> 0]
    /\ last_error = [c \in Calls |-> None]
    /\ wait_time = [c \in Calls |-> 0]
    /\ requests = [c \in Calls |-> 0]
    /\ sent = [c \in Calls |-> <<>>]
    /\ waits = [c \in Calls |-> 0]
    /\ statuses = [c \in Calls |-> <<>>]
    /\ last_response = [c \in Calls |-> NoResponse]
    /\ last_now = [c \in Calls |-> 0]
    /\ outcome = [c \in Calls |-> NoOutcome]
    /\ tool = [c \in Calls |-> NoOutcome]

InitWith(m) ==
    /\ auth = TestAuth
    /\ ClientInit(m)

(* --------------------------- the handle ------------------------------- *)
\* httpx.AsyncClient(...): the next handle object.
NewHandle == nHandles + 1

\* httpx.AsyncClient(base_url=self.auth.base_url,
\*                   headers=self.auth.get_headers(), ...)
HandleConfig == [base_url |-> base_url(auth), headers |-> get_headers(auth)]

\* AgilePlaceClient._get_client: the handle it returns.
GetClient == IF IsNone(self_client) THEN NewHandle ELSE Get(self_client)

\* AgilePlaceClient.__aenter__
Enter ==
    /\ nHandles < MaxHandles
    /\ self_client' = Some(NewHandle)
    /\ nHandles' = nHandles + 1
    /\ handle_cfg' = [handle_cfg EXCEPT ![NewHandle] = HandleConfig]
    /\ UNCHANGED <<auth, max_retries, closes, closing, used, sentClosed>>
    /\ UNCHANGED callVars

\* AgilePlaceClient.__aexit__
Exit ==
    /\ ~IsNone(self_client)
    /\ closes[Get(self_client)] < MaxCloses
    /\ closes' = [closes EXCEPT ![Get(self_client)] = @ + 1]
    /\ UNCHANGED <<auth, max_retries, self_client, nHandles, handle_cfg, closing, used,
                   sentClosed>>
    /\ UNCHANGED callVars

\* AgilePlaceClient.close up to its suspension in `await self._client.aclose()`
CloseBegin ==
    /\ IsNone(closing)
    /\ ~IsNone(self_client)
    /\ closes[Get(self_client)] < MaxCloses
    /\ closes' = [closes EXCEPT ![Get(self_client)] = @ + 1]
    /\ closing' = self_client
    /\ UNCHANGED <<auth, max_retries, self_client, nHandles, handle_cfg, used, sentClosed>>
    /\ UNCHANGED callVars

\* AgilePlaceClient.close resumed: `self._client = None`
CloseEnd ==
    /\ ~IsNone(closing)
    /\ self_client' = None
    /\ closing' = None
    /\ UNCHANGED <<auth, max_retries, nHandles, handle_cfg, closes, used, sentClosed>>
    /\ UNCHANGED callVars

(* -------------------------- the retry loop ---------------------------- *)
\* `attempt < self.max_retries - 1`: another attempt is allowed.
CanRetry_early(attempt_) == attempt_ < max_retries - 2

CanRetry_late(attempt_) == attempt_ < max_retries

CanRetry_shared(attempt_) == \A d \in DOMAIN attempt : attempt[d] < max_retries - 1

CanRetry(attempt_) == attempt_ < max_retries - 1

\* `for attempt in range(self.max_retries)`: the loop has an iteration a.
InRange(a) == 0 <= a /\ a < max_retries

\* `await client.request(method, endpoint, **kwargs)` issued by call c
\* through h, with the arguments rq of _request_with_retry.
IssueRequest_bare(c, h, rq) ==
    /\ requests' = [requests EXCEPT ![c] = @ + 1]
    /\ sent' = [sent EXCEPT ![c] =
                  Append(@, [method |-> rq.method, endpoint |-> rq.endpoint,
                             kwargs |-> IF @ = <<>> THEN rq.kwargs ELSE NoArgs,
                             handle |-> h])]
    /\ used' = used \cup {h}
    /\ sentClosed' = (sentClosed \/ closes[h] > 0)
    /\ pc' = [pc EXCEPT ![c] = "awaiting"]

IssueRequest(c, h, rq) ==
    /\ requests' = [requests EXCEPT ![c] = @ + 1]
    /\ sent' = [sent EXCEPT ![c] =
                  Append(@, [method |-> rq.method, endpoint |-> rq.endpoint,
                             kwargs |-> rq.kwargs, handle |-> h])]
    /\ used' = used \cup {h}
    /\ sentClosed' = (sentClosed \/ closes[h] > 0)
    /\ pc' = [pc EXCEPT ![c] = "awaiting"]

\* The loop is over without a return or raise: lines 193-194.
AfterLoop(c) ==
    /\ pc' = [pc EXCEPT ![c] = IF IsNone(last_error[c]) THEN "returned" ELSE "raised"]
    /\ outcome' = [outcome EXCEPT ![c] =
                     IF IsNone(last_error[c]) THEN Returned(PyNone)
                     ELSE Raised(Get(last_error[c]))]
    /\ UNCHANGED <<requests, sent, used, sentClosed>>

\* Call c is over in this step: the domain operation and the server tool
\* around the verb call inv, if any, run on.
ToolReturn(c, inv) ==
    tool' = [tool EXCEPT ![c] =
               IF pc'[c] \in {"returned", "raised", "cancelled"} /\ inv \in ToolCalls
               THEN ToolResult(inv, outcome'[c])
               ELSE @]

\* get / post / patch / put / delete -> _request_with_retry, up to the first
\* suspension; TypeError when the call does not fit the verb's signature.
StartCall(c, inv) ==
    /\ pc[c] = "idle"
    /\ invocation' = [invocation EXCEPT ![c] = inv]
    /\ IF Binds(inv)
       THEN /\ IsNone(self_client) => nHandles < MaxHandles
            /\ self_client' = Some(GetClient)
            /\ nHandles' = IF IsNone(self_client) THEN nHandles + 1 ELSE nHandles
            /\ handle_cfg' = IF IsNone(self_client)
                             THEN [handle_cfg EXCEPT ![NewHandle] = HandleConfig]
                             ELSE handle_cfg
            /\ client' = [client EXCEPT ![c] = Some(GetClient)]
            /\ last_error' = [last_error EXCEPT ![c] = None]
            /\ attempt' = [attempt EXCEPT ![c] = 0]
            /\ IF InRange(0)
               THEN IssueRequest(c, GetClient, Dispatch(inv)) /\ UNCHANGED outcome
               ELSE AfterLoop(c)
       ELSE /\ pc' = [pc EXCEPT ![c] = "raised"]
            /\ outcome' = [outcome EXCEPT ![c] = Raised(OtherError("TypeError"))]
            /\ UNCHANGED <<self_client, nHandles, handle_cfg, client, last_error,
                           attempt, requests, sent, used, sentClosed>>
    /\ ToolReturn(c, inv)
    /\ UNCHANGED <<auth, max_retries, closes, closing, wait_time, waits, statuses,
                   last_response, last_now>>

\* The transport delivers `response` to call c: _handle_response and the
\* except branch, up to the return, the raise or the sleep.
Respond(c, response, now) ==
    /\ pc[c] = "awaiting"
    /\ statuses' = [statuses EXCEPT ![c] = Append(@, response.status_code)]
    /\ last_response' = [last_response EXCEPT ![c] = response]
    /\ LET res == HandleResponse(response) IN
       IF ~res.raised
       THEN /\ pc' = [pc EXCEPT ![c] = "returned"]
            /\ outcome' = [outcome EXCEPT ![c] = res]
            /\ UNCHANGED <<last_error, wait_time, waits, last_now>>
       ELSE IF res.error.type = "RateLimitError"
       THEN /\ last_error' = [last_error EXCEPT ![c] = Some(res.error)]
            /\ IF CanRetry(attempt[c])
               THEN /\ wait_time' = [wait_time EXCEPT ![c] = WaitTime(res.error, attempt[c], now)]
                    /\ last_now' = [last_now EXCEPT ![c] = now]
                    /\ waits' = [waits EXCEPT ![c] = @ + 1]
                    /\ pc' = [pc EXCEPT ![c] = "sleeping"]
                    /\ UNCHANGED outcome
               ELSE /\ pc' = [pc EXCEPT ![c] = "raised"]
                    /\ outcome' = [outcome EXCEPT ![c] = res]
                    /\ UNCHANGED <<wait_time, waits, last_now>>
       ELSE /\ pc' = [pc EXCEPT ![c] = "raised"]
            /\ outcome' = [outcome EXCEPT ![c] = res]
            /\ UNCHANGED <<last_error, wait_time, waits, last_now>>
    /\ ToolReturn(c, invocation[c])
    /\ UNCHANGED <<auth, max_retries, invocation, client, attempt, requests, sent, used,
                   sentClosed>>
    /\ UNCHANGED executorVars

\* client.request raises instead of returning a response.
TransportError_wrapped(c) ==
    /\ pc[c] = "awaiting"
    /\ pc' = [pc EXCEPT ![c] = "raised"]
    /\ outcome' = [outcome EXCEPT ![c] =
                     Raised(AgilePlaceAPIError("Request failed", None, None))]
    /\ ToolReturn(c, invocation[c])
    /\ UNCHANGED <<auth, max_retries, invocation, client, attempt, last_error, wait_time,
                   requests, sent, waits, statuses, last_response, last_now, used,
                   sentClosed>>
    /\ UNCHANGED executorVars

TransportError(c) ==
    /\ pc[c] = "awaiting"
    /\ pc' = [pc EXCEPT ![c] = "raised"]
    /\ outcome' = [outcome EXCEPT ![c] = Raised(OtherError("TransportError"))]
    /\ ToolReturn(c, invocation[c])
    /\ UNCHANGED <<auth, max_retries, invocation, client, attempt, last_error, wait_time,
                   requests, sent, waits, statuses, last_response, last_now, used,
                   sentClosed>>
    /\ UNCHANGED executorVars

\* asyncio.sleep(wait_time) is over: `continue`, the next iteration.
Wake(c) ==
    /\ pc[c] = "sleeping"
    /\ attempt' = [attempt EXCEPT ![c] = IF InRange(@ + 1) THEN @ + 1 ELSE @]
    /\ IF InRange(attempt[c] + 1)
       THEN IssueRequest(c, Get(client[c]), Dispatch(invocation[c])) /\ UNCHANGED outcome
       ELSE AfterLoop(c)
    /\ ToolReturn(c, invocation[c])
    /\ UNCHANGED <<auth, max_retries, invocation, client, last_error, wait_time, waits,
                   statuses, last_response, last_now>>
    /\ UNCHANGED executorVars

\* The caller cancels the task of call c while it is suspended.
Cancel_teardown(c) ==
    /\ pc[c] \in {"awaiting", "sleeping"}
    /\ pc' = [pc EXCEPT ![c] = "cancelled"]
    /\ outcome' = [outcome EXCEPT ![c] = Raised(OtherError("CancelledError"))]
    /\ self_client' = None
    /\ ToolReturn(c, invocation[c])
    /\ UNCHANGED <<auth, max_retries, invocation, client, attempt, last_error, wait_time,
                   requests, sent, waits, statuses, last_response, last_now, used,
                   sentClosed>>
    /\ UNCHANGED <<nHandles, handle_cfg, closes, closing>>

Cancel(c) ==
    /\ pc[c] \in {"awaiting", "sleeping"}
    /\ pc' = [pc EXCEPT ![c] = "cancelled"]
    /\ outcome' = [outcome EXCEPT ![c] = Raised(OtherError("CancelledError"))]
    /\ ToolReturn(c, invocation[c])
    /\ UNCHANGED <<auth, max_retries, invocation, client, attempt, last_error, wait_time,
                   requests, sent, waits, statuses, last_response, last_now, used,
                   sentClosed>>
    /\ UNCHANGED executorVars

(* -------------------------- specifications ---------------------------- *)
\* Responses of the interleaving specification: one per classification.
CoarseResponses ==
    {[status_code |-> 200, text |-> "{\"data\": \"test\"}", retry_after |-> NoHeader],
     [status_code |-> 429, text |-> "", retry_after |-> NoHeader],
     [status_code |-> 500, text |-> "", retry_after |-> NoHeader]}

CoarseClock == {43200}

\* Several calls, scoped entry/exit and close() interleaved on one client.
Init == \E m \in 0..MaxRetriesShared : InitWith(m)

Next ==
    \/ Enter
    \/ Exit
    \/ CloseBegin
    \/ CloseEnd
    \/ \E c \in Calls : StartCall(c, TestCall)
    \/ \E c \in Calls, r \in CoarseResponses, now \in CoarseClock : Respond(c, r, now)
    \/ \E c \in Calls : TransportError(c)
    \/ \E c \in Calls : Wake(c)
    \/ \E c \in Calls : Cancel(c)

Spec == Init /\ [][Next]_vars

\* One logical call on a fresh client, against every response of Responses.
InitCall == \E m \in (-1)..MaxRetriesLimit : InitWith(m)

NextCall ==
    \/ StartCall(1, TestCall)
    \/ \E r \in Responses, now \in Clock : Respond(1, r, now)
    \/ TransportError(1)
    \/ Wake(1)
    \/ Cancel(1)

SpecCall == InitCall /\ [][NextCall]_vars

\* Several calls in flight on one client that is not torn down meanwhile:
\* the calls interleave at the request and the backoff wait.
InitShared == \E m \in 0..MaxRetriesShared : InitWith(m)

NextShared ==
    \/ \E c \in Calls : StartCall(c, TestCall)
    \/ \E c \in Calls, r \in CoarseResponses, now \in CoarseClock : Respond(c, r, now)
    \/ \E c \in Calls : TransportError(c)
    \/ \E c \in Calls : Wake(c)
    \/ \E c \in Calls : Cancel(c)

SpecShared == InitShared /\ [][NextShared]_vars

\* The same, with a transport that answers every request (with a response or
\* an exception) and an event loop that ends every asyncio.sleep.
Answer(c) ==
    \/ \E r \in CoarseResponses, now \in CoarseClock : Respond(c, r, now)
    \/ TransportError(c)

SpecLive ==
    /\ InitShared
    /\ [][NextShared]_vars
    /\ \A c \in Calls : WF_vars(Answer(c)) /\ WF_vars(Wake(c))

\* An auth object resolved from the environment alone, as in
\* test_auth_from_env_vars of tests/test_auth.py.
EnvAuth ==
    AuthInit([domain |-> None, api_token |-> None,
              env_domain |-> Some(Https \o Host), env_token |-> Some(<<"env_token">>)])

\* Responses of the tool specification: those of CoarseResponses, an error
\* with a message, a list and an empty success.
ToolResponses ==
    CoarseResponses \cup
    {[status_code |-> 404, text |-> "{\"message\": \"Card not found\"}",
      retry_after |-> NoHeader],
     [status_code |-> 200, text |-> "[1]", retry_after |-> NoHeader],
     [status_code |-> 204, text |-> "", retry_after |-> NoHeader]}

\* One call through any of the verb entry points, directly or from a server
\* tool, on a client whose handle is created by the call or by __aenter__.
InitTools ==
    /\ auth \in {TestAuth, EnvAuth}
    /\ \E m \in 0..MaxRetriesShared : ClientInit(m)

NextTools ==
    \/ Enter
    \/ \E inv \in Invocations : StartCall(1, inv)
    \/ \E r \in ToolResponses, now \in CoarseClock : Respond(1, r, now)
    \/ TransportError(1)
    \/ Wake(1)
    \/ Cancel(1)

SpecTools == InitTools /\ [][NextTools]_vars

\* max_retries: int = 3
DefaultMaxRetries == 3

\* AgilePlaceAuth(domain, api_token) is called with the inputs chosen at the
\* start.
Construct ==
    /\ auth.state = "unconstructed"
    /\ auth' = AuthInit(auth.in)
    /\ UNCHANGED <<max_retries, used, sentClosed>>
    /\ UNCHANGED executorVars
    /\ UNCHANGED callVars

\* auth.validate() is called on the constructed object.
Validate ==
    /\ auth.state = "constructed"
    /\ IsNone(auth.valid)
    /\ auth' = [auth EXCEPT !.valid = Some(validate(auth))]
    /\ UNCHANGED <<max_retries, used, sentClosed>>
    /\ UNCHANGED executorVars
    /\ UNCHANGED callVars

\* Credential resolution alone: every input of AuthInputs, no call made.
InitAuth ==
    /\ \E in \in AuthInputs : auth = Unconstructed(in)
    /\ ClientInit(DefaultMaxRetries)

NextAuth ==
    \/ Construct
    \/ Validate

SpecAuth == InitAuth /\ [][NextAuth]_vars

(* ====================== properties of one call ======================== *)
Terminated(c) == pc[c] \in {"returned", "raised"}

\* Every request call c issued so far has been answered with a response.
AllAnswered(c) == Len(statuses[c]) = requests[c]

\* Every response call c received so far had status 429.
All429(c) == \A i \in 1..Len(statuses[c]) : statuses[c][i] = 429

LastStatus(c) == statuses[c][Len(statuses[c])]

\* What a 2xx response stands for: its parsed body, {} when it has none.
BodyOf(response) ==
    IF response.status_code = 204 \/ response.text = ""
    THEN EmptyDict
    ELSE JsonLoads(response.text)

HasBody(response) ==
    response.status_code = 204 \/ response.text = "" \/ JsonValid(response.text)

\* C1: for max_retries >= 1, a call whose every request is answered with 429
\* raises RateLimitError once it has issued exactly max_retries requests; it
\* is still retrying before that and issues nothing after it.
C1_AlwaysRateLimited ==
    \A c \in Calls :
        (max_retries >= 1 /\ requests[c] >= 1 /\ AllAnswered(c) /\ All429(c)
         /\ pc[c] # "cancelled")
        => /\ requests[c] <= max_retries
           /\ requests[c] < max_retries => pc[c] = "sleeping"
           /\ requests[c] = max_retries
                => /\ pc[c] = "raised"
                   /\ outcome[c].error.type = "RateLimitError"

C1_Witness ==
    /\ max_retries = 3
    /\ pc[1] = "raised"
    /\ statuses[1] = <<429, 429, 429>>
    /\ requests[1] = 3
    /\ outcome[1].error.type = "RateLimitError"

\* C2: for max_retries >= 1, a call answered with 429 on its first
\* max_retries - 1 requests and with 200 on the last allowed one returns the
\* parsed body of that last response, after exactly max_retries requests and
\* max_retries - 1 backoff waits, one between every two consecutive requests.
C2_SucceedsOnFinalAttempt ==
    \A c \in Calls :
        /\ (pc[c] = "awaiting" /\ max_retries >= 1) => waits[c] = requests[c] - 1
        /\ (max_retries >= 1 /\ Len(statuses[c]) = max_retries
            /\ (\A i \in 1..(max_retries - 1) : statuses[c][i] = 429)
            /\ LastStatus(c) = 200 /\ HasBody(last_response[c]))
           => /\ pc[c] = "returned"
              /\ ~outcome[c].raised
              /\ outcome[c].value = BodyOf(last_response[c])
              /\ requests[c] = max_retries
              /\ waits[c] = max_retries - 1

C2_Witness ==
    /\ max_retries = 3
    /\ statuses[1] = <<429, 429, 200>>
    /\ pc[1] = "returned"
    /\ outcome[1].value = [type |-> "dict", items |-> {<<"data", "test">>}]
    /\ waits[1] = 2

\* C3: a response whose status is none of 200, 201, 202, 204, 429 ends the
\* call at once, on whatever attempt it arrives: the call raises
\* AgilePlaceAPIError carrying that status, with no wait and no request after
\* that response.
C3_FailureNotRetried ==
    \A c \in Calls :
        (Len(statuses[c]) >= 1 /\ LastStatus(c) \notin {200, 201, 202, 204, 429})
        => /\ pc[c] = "raised"
           /\ outcome[c].error.type = "AgilePlaceAPIError"
           /\ outcome[c].error.status_code = Some(LastStatus(c))
           /\ requests[c] = Len(statuses[c])
           /\ waits[c] = Len(statuses[c]) - 1

C3_Witness ==
    /\ statuses[1] = <<429, 404>>
    /\ pc[1] = "raised"
    /\ outcome[1].error.status_code = Some(404)
    /\ requests[1] = 2
    /\ waits[1] = 1

\* C4: a call ends at the first response that is not 429, so the requests it
\* issued number the position of that response; when the response is a 200,
\* 201, 202 or 204 the call returns at once, without a wait, the value that
\* response stands for, whatever number of 429 responses came before.
C4_EndsAtFirstNon429 ==
    \A c \in Calls :
        /\ \A i \in 1..(Len(statuses[c]) - 1) : statuses[c][i] = 429
        /\ (Len(statuses[c]) >= 1 /\ LastStatus(c) # 429)
           => /\ pc[c] \in {"returned", "raised"}
              /\ requests[c] = Len(statuses[c])
              /\ waits[c] = Len(statuses[c]) - 1
        /\ (Len(statuses[c]) >= 1 /\ LastStatus(c) \in {200, 201, 202, 204}
            /\ HasBody(last_response[c]))
           => /\ pc[c] = "returned"
              /\ ~outcome[c].raised
              /\ outcome[c].value = BodyOf(last_response[c])

C4_Witness ==
    /\ statuses[1] = <<429, 201>>
    /\ pc[1] = "returned"
    /\ requests[1] = 2
    /\ max_retries = 4
    /\ outcome[1].value = [type |-> "list", items |-> {<<"0", "1">>}]

\* C5: no backoff wait follows the final allowed attempt: a call sleeps only
\* while another attempt is left, a 429 on attempt max_retries - 1 raises
\* RateLimitError with no wait, and the waits of a call that returned or
\* raised never exceed its requests minus one.
C5_NoWaitAfterFinalAttempt ==
    \A c \in Calls :
        /\ (Terminated(c) /\ requests[c] >= 1) => waits[c] <= requests[c] - 1
        /\ requests[c] = 0 => waits[c] = 0
        /\ pc[c] = "sleeping" => (attempt[c] < max_retries - 1 /\ requests[c] < max_retries)
        /\ (max_retries >= 1 /\ Len(statuses[c]) = max_retries /\ LastStatus(c) = 429)
           => /\ pc[c] = "raised"
              /\ outcome[c].error.type = "RateLimitError"
              /\ waits[c] = max_retries - 1

C5_Witness ==
    /\ max_retries = 2
    /\ statuses[1] = <<429, 429>>
    /\ pc[1] = "raised"
    /\ waits[1] = 1
    /\ requests[1] = 2

\* retry_at - now of the wait call c is in, when its 429 carried a parsable
\* Retry-After.
Delta(c) == Strptime(last_response[c].retry_after) - last_now[c]

\* C6: the wait after a rate-limited attempt a that is not the last is
\* retry_at - now clamped into [0, 60] when the 429 carried a parsable
\* Retry-After (0 for a past instant, 60 for one more than 60 s ahead), and
\* 2^(a+1) seconds otherwise: 2, 4, 8 for attempts 0, 1, 2.
C6_WaitDuration ==
    \A c \in Calls :
        pc[c] = "sleeping"
        => IF StrptimeOk(last_response[c].retry_after)
           THEN /\ Delta(c) < 0 => wait_time[c] = 0
                /\ Delta(c) > 60 => wait_time[c] = 60
                /\ (0 <= Delta(c) /\ Delta(c) <= 60) => wait_time[c] = Delta(c)
           ELSE /\ attempt[c] = 0 => wait_time[c] = 2
                /\ attempt[c] = 1 => wait_time[c] = 4
                /\ attempt[c] = 2 => wait_time[c] = 8
                /\ wait_time[c] = 2 ^ (attempt[c] + 1)

\* A wait clamped at 60: Retry-After 12:01:00, now 11:58:20.
C6_Witness ==
    /\ pc[1] = "sleeping"
    /\ last_response[1].retry_after = "Mon, 01 Jan 2024 12:01:00 GMT"
    /\ last_now[1] = 43100
    /\ wait_time[1] = 60
    /\ attempt[1] = 2

\* C7: for max_retries >= 1 a call that ends returns a parsed JSON value or
\* raises RateLimitError, AgilePlaceAPIError or an error of the transport's
\* request; nothing else reaches the caller.
C7_OnlyTypedOutcomes ==
    \A c \in Calls :
        (max_retries >= 1 /\ Terminated(c))
        => \/ /\ ~outcome[c].raised
              /\ outcome[c].value.type \in {"dict", "list"}
           \/ /\ outcome[c].raised
              /\ outcome[c].error.type \in {"RateLimitError", "AgilePlaceAPIError", "TransportError"}

(* ================== properties of the shared client =================== *)
\* C8: over the lifetime of one client, whatever verb calls, scoped entries,
\* exits and close() interleave, at most one handle is ever created and every
\* request goes through that one handle.
C8_HandleCreatedOnce ==
    /\ nHandles <= 1
    /\ Cardinality(used) <= 1

\* C9: no connection leaks: when a teardown (__aexit__ or close()) has closed
\* the client's handle, every handle the client ever created has been closed.
C9_NoLeakAfterTeardown ==
    [][closes' # closes => \A h \in 1..nHandles : closes'[h] > 0]_vars

\* C10: retry state is local to a call: each interleaved call issues at most
\* max_retries requests, its attempt counter counts only the 429 responses it
\* received itself, and a call raises RateLimitError only after max_retries
\* requests of its own, whatever the other calls on the client did before or
\* meanwhile.
C10_RetryStateLocal ==
    \A c \in Calls :
        /\ requests[c] <= Max(max_retries, 0)
        /\ pc[c] = "awaiting" => (attempt[c] = Len(statuses[c]) /\ requests[c] = attempt[c] + 1)
        /\ pc[c] = "sleeping" => (attempt[c] = Len(statuses[c]) - 1 /\ All429(c))
        /\ (pc[c] = "raised" /\ outcome[c].error.type = "RateLimitError")
           => /\ requests[c] = max_retries
              /\ Len(statuses[c]) = max_retries
              /\ All429(c)

\* Call 2 is on its second attempt after call 1 exhausted its retries.
C10_Witness ==
    /\ max_retries = 2
    /\ pc[1] = "raised"
    /\ outcome[1].error.type = "RateLimitError"
    /\ requests[1] = 2
    /\ pc[2] = "awaiting"
    /\ attempt[2] = 1
    /\ statuses[2] = <<429>>

\* C11: a call cancelled while it is suspended in the backoff wait aborts
\* there: the cancellation issues no request, leaves the shared handle and
\* the attempt counts of all calls as they were, and the cancelled call never
\* issues a request afterwards.
C11_CancelInBackoff ==
    [][\A c \in Calls :
         /\ (pc[c] = "sleeping" /\ pc'[c] = "cancelled")
            => /\ requests' = requests
               /\ used' = used
               /\ attempt' = attempt
               /\ <<self_client, nHandles, closes, closing>>' = <<self_client, nHandles, closes, closing>>
         /\ pc[c] = "cancelled"
            => (pc'[c] = "cancelled" /\ requests'[c] = requests[c])]_vars

\* Call 1 was cancelled in its first backoff wait while call 2 is retrying.
C11_Witness ==
    /\ pc[1] = "cancelled"
    /\ waits[1] = 1
    /\ requests[1] = 1
    /\ statuses[1] = <<429>>
    /\ pc[2] = "awaiting"
    /\ attempt[2] = 1
    /\ ~IsNone(self_client)

\* The retry-after hint of a 429 response: the parsed instant of a present
\* HTTP-date header, nothing otherwise.
HintOf(response) ==
    IF StrptimeOk(response.retry_after)
    THEN Some(Strptime(response.retry_after))
    ELSE None

\* C12: RateLimitError reaches the caller only when the final allowed attempt
\* was rate-limited, never while an attempt remains, and the raised error
\* carries the retry_after parsed from the final 429 response of the call
\* (none when that response had no parsable Retry-After).
C12_RateLimitErrorOnExhaustion ==
    \A c \in Calls :
        (Terminated(c) /\ outcome[c].error.type = "RateLimitError")
        => /\ attempt[c] = max_retries - 1
           /\ Len(statuses[c]) = max_retries
           /\ LastStatus(c) = 429
           /\ outcome[c].error.retry_after = HintOf(last_response[c])

C12_Witness ==
    /\ max_retries = 2
    /\ pc[1] = "raised"
    /\ outcome[1].error.type = "RateLimitError"
    /\ outcome[1].error.retry_after = Some(43260)
    /\ last_response[1].retry_after = "Mon, 01 Jan 2024 12:01:00 GMT"
    /\ attempt[1] = 1

\* C13: an exception raised by the transport request itself, on any attempt,
\* reaches the caller as it is: the call ends there with that exception, not
\* an AgilePlaceAPIError or RateLimitError, with no wait and no request after
\* the one that failed.
C13_TransportErrorPropagates ==
    \A c \in Calls :
        (Terminated(c) /\ requests[c] >= 1 /\ ~AllAnswered(c))
        => /\ pc[c] = "raised"
           /\ outcome[c].error.type = "TransportError"
           /\ requests[c] = Len(statuses[c]) + 1
           /\ waits[c] = Len(statuses[c])
           /\ All429(c)

\* The transport failed on the second attempt.
C13_Witness ==
    /\ pc[1] = "raised"
    /\ outcome[1].error.type = "TransportError"
    /\ statuses[1] = <<429>>
    /\ requests[1] = 2
    /\ waits[1] = 1

\* C14: on status 429 _handle_response always raises RateLimitError with
\* status_code 429; its retry_after is the parsed instant when the header is
\* present and an HTTP-date, and absent when the header is missing, empty or
\* does not parse: a parse failure raises nothing else and leaves the
\* classification as it is.
C14_RateLimitClassification ==
    \A c \in Calls :
        (Len(statuses[c]) >= 1 /\ LastStatus(c) = 429)
        => /\ ~IsNone(last_error[c])
           /\ Get(last_error[c]).type = "RateLimitError"
           /\ Get(last_error[c]).status_code = Some(429)
           /\ Get(last_error[c]).retry_after = HintOf(last_response[c])
           /\ last_response[c].retry_after \in {NoHeader, "", "120"}
                => IsNone(Get(last_error[c]).retry_after)
           /\ (Terminated(c) /\ AllAnswered(c)) => outcome[c].error = Get(last_error[c])

\* A 429 whose Retry-After is not an HTTP-date, on an attempt that is retried.
C14_Witness ==
    /\ pc[1] = "sleeping"
    /\ last_response[1].status_code = 429
    /\ last_response[1].retry_after = "120"
    /\ Get(last_error[1]).type = "RateLimitError"
    /\ IsNone(Get(last_error[1]).retry_after)

\* The last response of call c was a Failure: a status that is none of
\* 200, 201, 202, 204, 429.
FailedLast(c) ==
    /\ Len(statuses[c]) >= 1
    /\ LastStatus(c) \notin {200, 201, 202, 204, 429}

HasMessage(json) == json.type = "dict" /\ \E kv \in json.items : kv[1] = "message"

MessageOf(json) == (CHOOSE kv \in json.items : kv[1] = "message")[2]

\* C15 as stated: the message of a Failure is the body's `message` field when
\* the body is a JSON mapping that has one, the generic message when the body
\* is JSON without it, and the raw response text whenever JSON parsing fails;
\* the error carries the parsed body, or nothing when parsing failed.
C15_Original ==
    \A c \in Calls :
        FailedLast(c)
        => LET r == last_response[c]
               e == outcome[c].error
           IN IF JsonValid(r.text)
              THEN /\ e.response = Some(JsonLoads(r.text))
                   /\ e.message = IF HasMessage(JsonLoads(r.text))
                                  THEN MessageOf(JsonLoads(r.text))
                                  ELSE GenericMessage(r.status_code)
              ELSE /\ e.response = None
                   /\ e.message = r.text

\* C15 (amended): as stated, except that when JSON parsing fails the message
\* is the raw response text only if that text is non-empty; for an empty body
\* it is the generic "API request failed with status {code}".
C15_ErrorMessage ==
    \A c \in Calls :
        FailedLast(c)
        => LET r == last_response[c]
               e == outcome[c].error
           IN /\ e.type = "AgilePlaceAPIError"
              /\ e.status_code = Some(r.status_code)
              /\ IF JsonValid(r.text)
                 THEN /\ e.response = Some(JsonLoads(r.text))
                      /\ e.message = IF HasMessage(JsonLoads(r.text))
                                     THEN MessageOf(JsonLoads(r.text))
                                     ELSE GenericMessage(r.status_code)
                 ELSE /\ e.response = None
                      /\ r.text # "" => e.message = r.text
                      /\ r.text = "" => e.message = GenericMessage(r.status_code)

\* 404 with the unparsable body "Not found".
C15_Witness ==
    /\ pc[1] = "raised"
    /\ last_response[1].status_code = 404
    /\ last_response[1].text = "Not found"
    /\ outcome[1].error.status_code = Some(404)
    /\ outcome[1].error.message = "Not found"
    /\ outcome[1].error.response = None

\* C16: on status 200, 201 or 202 the call returns the parsed JSON body when
\* the response has a body and the empty mapping when the body is empty; a
\* 200 with body {"data": "test"} returns {"data": "test"}.
C16_SuccessClassification ==
    \A c \in Calls :
        (Len(statuses[c]) >= 1 /\ LastStatus(c) \in {200, 201, 202})
        => LET r == last_response[c] IN
           /\ r.text = ""
                => (pc[c] = "returned" /\ ~outcome[c].raised /\ outcome[c].value = EmptyDict)
           /\ JsonValid(r.text)
                => (pc[c] = "returned" /\ ~outcome[c].raised
                    /\ outcome[c].value = JsonLoads(r.text))
           /\ r.text = "{\"data\": \"test\"}"
                => outcome[c].value = [type |-> "dict", items |-> {<<"data", "test">>}]

\* test_successful_get_request: 200 on the first attempt.
C16_Witness ==
    /\ statuses[1] = <<200>>
    /\ last_response[1].text = "{\"data\": \"test\"}"
    /\ pc[1] = "returned"
    /\ outcome[1].value = [type |-> "dict", items |-> {<<"data", "test">>}]

\* C17: on status 204 the call returns the empty mapping whatever the body
\* is, without raising and without another request.
C17_NoContent ==
    \A c \in Calls :
        (Len(statuses[c]) >= 1 /\ LastStatus(c) = 204)
        => /\ pc[c] = "returned"
           /\ ~outcome[c].raised
           /\ outcome[c].value = EmptyDict
           /\ requests[c] = Len(statuses[c])

\* 204 with a body that is not JSON.
C17_Witness ==
    /\ last_response[1].status_code = 204
    /\ last_response[1].text = "Not found"
    /\ pc[1] = "returned"
    /\ outcome[1].value = EmptyDict

(* ==================== properties of the credentials =================== *)
\* C18: every successfully constructed AgilePlaceAuth has a non-empty domain
\* and a non-empty token, so validate() called on it returns true.
C18_NonEmptyAfterConstruction ==
    auth.state = "constructed"
    => /\ auth.domain # <<>>
       /\ auth.api_token # <<>>
       /\ ~IsNone(auth.valid) => Get(auth.valid) = TRUE

\* s contains q as a substring.
Contains(s, q) ==
    \E i \in 1..(Len(s) - Len(q) + 1) : SubSeq(s, i, i + Len(q) - 1) = q

\* C19: after a successful construction the stored domain contains neither
\* `https://` nor `http://`.
C19_NoSchemeInDomain ==
    auth.state = "constructed"
    => /\ ~Contains(auth.domain, Https)
       /\ ~Contains(auth.domain, Http)

\* s with one leading `https://` or `http://` removed, nothing else touched.
StripLeadingOnce(s) ==
    IF Len(s) >= Len(Https) /\ SubSeq(s, 1, Len(Https)) = Https
    THEN SubSeq(s, Len(Https) + 1, Len(s))
    ELSE IF Len(s) >= Len(Http) /\ SubSeq(s, 1, Len(Http)) = Http
    THEN SubSeq(s, Len(Http) + 1, Len(s))
    ELSE s

\* C20: for every accepted (domain, token) pair base_url is "https://" +
\* stripped_domain + "/io", where stripped_domain is the resolved input
\* domain with a leading `http://` or `https://` removed exactly once and
\* every other character left as it was.
C20_BaseUrl ==
    auth.state = "constructed"
    => base_url(auth)
         = Https \o StripLeadingOnce(Get(OrElse(auth.in.domain, auth.in.env_domain)))
                 \o <<"/", "i", "o">>

\* The value lines 33-34 pick for a field: the explicit argument when it is
\* neither None nor empty, else the environment variable (None when unset).
Explicit(arg) == ~IsNone(arg) /\ Get(arg) # <<>>

Resolved(arg, env) == IF Explicit(arg) THEN arg ELSE env

Missing(o) == IsNone(o) \/ Get(o) = <<>>

\* C21: when the resolved domain is absent or empty the construction raises
\* the AgilePlaceAuthError that names AGILEPLACE_DOMAIN, whether or not a
\* token is there; when the domain is there and the resolved token is absent
\* or empty it raises the AgilePlaceAuthError that names AGILEPLACE_API_TOKEN,
\* and the account URL of that message holds the resolved domain.
C21_DomainErrorFirst ==
    auth.state # "unconstructed"
    => LET d == Resolved(auth.in.domain, auth.in.env_domain)
           t == Resolved(auth.in.api_token, auth.in.env_token)
       IN /\ Missing(d) => /\ auth.state = "error"
                           /\ auth.error.type = "AgilePlaceAuthError"
                           /\ auth.error.key = "AGILEPLACE_DOMAIN"
          /\ (~Missing(d) /\ Missing(t))
             => /\ auth.state = "error"
                /\ auth.error.type = "AgilePlaceAuthError"
                /\ auth.error.key = "AGILEPLACE_API_TOKEN"
                /\ auth.error.domain = Get(d)
          /\ (~Missing(d) /\ ~Missing(t)) => auth.state = "constructed"

\* Domain and token both missing: the error is the one about the domain.
C21_Witness ==
    /\ auth.state = "error"
    /\ Missing(Resolved(auth.in.domain, auth.in.env_domain))
    /\ Missing(Resolved(auth.in.api_token, auth.in.env_token))
    /\ auth.error.key = "AGILEPLACE_DOMAIN"

\* C22: the domain (token) of a constructed object comes from the explicit
\* argument whenever that is given and non-empty, whatever the environment
\* holds, and from AGILEPLACE_DOMAIN (AGILEPLACE_API_TOKEN) only otherwise;
\* neither field depends on the inputs of the other.
C22_ExplicitPreferred ==
    /\ auth.state = "constructed"
       => /\ auth.domain
               = StripProtocol(IF Explicit(auth.in.domain) THEN Get(auth.in.domain)
                               ELSE Get(auth.in.env_domain))
          /\ auth.api_token
               = IF Explicit(auth.in.api_token) THEN Get(auth.in.api_token)
                 ELSE Get(auth.in.env_token)
    /\ (auth.state = "error" /\ auth.error.key = "AGILEPLACE_API_TOKEN")
       => auth.error.domain
            = IF Explicit(auth.in.domain) THEN Get(auth.in.domain)
              ELSE Get(auth.in.env_domain)

\* Explicit domain with another domain in the environment, token from the
\* environment only.
C22_Witness ==
    /\ auth.state = "constructed"
    /\ auth.in.domain = Some(<<"h">>)
    /\ auth.in.env_domain = Some(Host)
    /\ auth.in.api_token = Some(<<>>)
    /\ auth.in.env_token = Some(<<"env_token">>)
    /\ auth.domain = <<"h">>
    /\ auth.api_token = <<"env_token">>

(* =============== properties of handles, verbs and tools =============== *)
\* C23: every handle that exists, made by _get_client or by __aenter__, was
\* built with base_url https://{domain}/io and with exactly the headers
\* Authorization: Bearer {token}, Accept: application/json and
\* Content-Type: application/json; every request of every call went through
\* such a handle; the auth object is still as it was constructed.
C23_HandleConfigured ==
    /\ \A h \in Handles :
          h <= nHandles
          => /\ handle_cfg[h].base_url = Https \o auth.domain \o <<"/", "i", "o">>
             /\ handle_cfg[h].headers
                  = [Authorization |-> <<"Bearer ">> \o auth.api_token,
                     Accept |-> "application/json",
                     ContentType |-> "application/json"]
    /\ \A c \in Calls : \A i \in 1..Len(sent[c]) :
          /\ sent[c][i].handle \in 1..nHandles
          /\ handle_cfg[sent[c][i].handle].headers = get_headers(auth)
    /\ auth = AuthInit(auth.in)

\* A request went through handle 1 and __aenter__ then made handle 2: both
\* have the configuration of the auth object resolved from the environment.
C23_Witness ==
    /\ auth = EnvAuth
    /\ nHandles = 2
    /\ self_client = Some(2)
    /\ Len(sent[1]) >= 1
    /\ sent[1][1].handle = 1
    /\ handle_cfg[1] = handle_cfg[2]
    /\ handle_cfg[1].base_url = Https \o Host \o <<"/", "i", "o">>
    /\ handle_cfg[1].headers.Authorization = <<"Bearer ", "env_token">>

\* The HTTP method of a verb entry point.
MethodOf(verb) ==
    CASE verb = "get" -> "GET"
      [] verb = "post" -> "POST"
      [] verb = "patch" -> "PATCH"
      [] verb = "put" -> "PUT"
      [] verb = "delete" -> "DELETE"

\* C24: with max_retries >= 1, every call of a verb entry point made by a
\* caller or a domain operation has issued a request of that verb to the
\* given path with the parameters / body it passed; delete_connection has
\* sent DELETE /card/connections with the parent and child card IDs, and
\* when the verb returned the tool reports the connection as deleted.
C24_VerbsReachRetryLoop ==
    \A c \in Calls :
        (pc[c] # "idle" /\ max_retries >= 1)
        => /\ Len(sent[c]) >= 1
           /\ sent[c][1].method = MethodOf(invocation[c].verb)
           /\ sent[c][1].endpoint = invocation[c].endpoint
           /\ \A k \in Passed(invocation[c]) :
                 sent[c][1].kwargs[k] = invocation[c].passed[k]
           /\ (invocation[c].via = "delete_connection" /\ pc[c] = "returned")
              => tool[c] = Returned(Str(DeletedText))

Done(c) == pc[c] \in {"returned", "raised", "cancelled"}

\* The steps of one call: Pending is "awaiting", the backoff wait "sleeping".
Allowed(c) ==
    \/ /\ pc[c] = "idle"
       /\ pc'[c] = "awaiting"
    \/ /\ pc[c] = "awaiting"
       /\ pc'[c] = "returned"
       /\ last_response'[c].status_code \div 100 = 2
    \/ /\ pc[c] = "awaiting"
       /\ pc'[c] = "sleeping"
       /\ last_response'[c].status_code = 429
       /\ requests[c] < max_retries
    \/ /\ pc[c] = "awaiting"
       /\ pc'[c] = "raised"
    \/ /\ pc[c] = "sleeping"
       /\ pc'[c] = "awaiting"
       /\ requests'[c] = requests[c] + 1
    \/ /\ pc[c] \in {"awaiting", "sleeping"}
       /\ pc'[c] = "cancelled"

\* C25: when every request is answered and every wait ends, a call that has
\* issued a request ends in a return or a raise; it never issues more than
\* max_retries requests; it moves only Pending -> return on 2xx,
\* Pending -> wait -> Pending on 429, Pending -> raise, and nothing leaves a
\* terminal state.
C25_Lifecycle ==
    /\ [][\A c \in Calls : pc'[c] # pc[c] => Allowed(c)]_vars
    /\ [](\A c \in Calls : requests[c] <= Max(max_retries, 0))
    /\ \A c \in Calls : (pc[c] = "awaiting") ~> Done(c)

\* C26: every client.request of a call has the method, path, query
\* parameters and body of its first one, and each attempt is one new
\* client.request.
C26_SameRequestEveryAttempt ==
    \A c \in Calls :
        /\ Len(sent[c]) = requests[c]
        /\ \A i \in 1..Len(sent[c]) :
              /\ sent[c][i].method = sent[c][1].method
              /\ sent[c][i].endpoint = sent[c][1].endpoint
              /\ sent[c][i].kwargs = sent[c][1].kwargs
              /\ sent[c][i].method = MethodOf(invocation[c].verb)
              /\ sent[c][i].endpoint = invocation[c].endpoint
              /\ \A k \in Passed(invocation[c]) :
                    sent[c][i].kwargs[k] = invocation[c].passed[k]

\* create_connection retried after a 429: the second POST carries the body
\* of the first.
C26_Witness ==
    /\ invocation[1].via = "create_connection"
    /\ statuses[1] = <<429>>
    /\ Len(sent[1]) = 2
    /\ sent[1][2].method = "POST"
    /\ sent[1][2].endpoint = "/card/connections"
    /\ sent[1][2].kwargs["json"] = ConnectionPayload

\* C27: a server tool whose verb call is over has either returned the
\* result of its domain operation or raised ValueError; for a verb that
\* raised, the text is "Rate limit exceeded..." for RateLimitError,
\* "API Error (status): message" for any other AgilePlaceAPIError,
\* "Authentication Error: ..." for AgilePlaceAuthError and
\* "Unexpected error: ..." for anything else.
C27_ToolErrorsConverted ==
    \A c \in Calls :
        (invocation[c] \in ToolCalls /\ Terminated(c))
        => LET e == outcome[c].error
               op == DomainResult(invocation[c], outcome[c])
           IN /\ tool[c].raised => tool[c].error.type = "ValueError"
              /\ ~tool[c].raised
                 => /\ ~op.raised
                    /\ tool[c].value
                         = IF invocation[c].via = "delete_connection"
                           THEN Str(DeletedText) ELSE op.value
              /\ op.raised => tool[c].raised
              /\ outcome[c].raised
                 => tool[c].error.message
                      = IF e.type = "RateLimitError"
                        THEN "Rate limit exceeded. Please try again later. " \o e.message
                        ELSE IF e.type = "AgilePlaceAPIError"
                        THEN "API Error (" \o StatusText(e.status_code) \o "): "
                               \o e.message
                        ELSE IF e.type = "AgilePlaceAuthError"
                        THEN "Authentication Error: " \o e.message
                        ELSE "Unexpected error: " \o e.message

\* list_boards answered with 429 until its attempts are used up.
C27_Witness ==
    /\ invocation[1].via = "list_boards"
    /\ pc[1] = "raised"
    /\ outcome[1].error.type = "RateLimitError"
    /\ tool[1].raised
    /\ tool[1].error.type = "ValueError"
    /\ tool[1].error.message
         = "Rate limit exceeded. Please try again later. " \o outcome[1].error.message

(* ================= properties of the client's lifecycle ================ *)
\* C28: whatever max_retries is, a call that has returned has issued at least
\* one request, and what it returned is the classification of the 2xx
\* response to its last request.
C28_ReturnsOnlyAfterRequest ==
    \A c \in Calls :
        pc[c] = "returned"
        => /\ requests[c] >= 1
           /\ Len(statuses[c]) = requests[c]
           /\ LastStatus(c) \div 100 = 2
           /\ outcome[c].value = BodyOf(last_response[c])

\* C29: no call has issued a request through a handle on which aclose() had
\* already been called.
C29_NoRequestThroughClosedHandle == ~sentClosed

\* C30: aclose() is called at most once on every handle.
C30_TeardownIdempotent == \A h \in Handles : closes[h] <= 1

====
